---- MODULE Spec2Model ----
(***************************************************************************)
(* The country-data reconciliation pipeline: four scripts (api_insert,     *)
(* csv_insert, webscraping_insert, process_data) that rebuild the tables   *)
(* of one DuckDB file, countries.ddb.  Each script is modelled statement   *)
(* by statement; every statement commits on its own (DuckDB autocommit).   *)
(***************************************************************************)
EXTENDS Integers, Sequences, FiniteSets, TLC

\* ------------------------------------------------------------------ bounds
\* Longest raw source (records of the API array, lines of a CSV, rows of an
\* HTML table) that Init draws.
MaxRows == 2
\* Most failures (missing file, network error, ...) present at once.
MaxFaults == 1
\* Most <table> elements of the Legatum page that Init draws.
MaxTables == 3
\* Most interactions with the dashboard in one session.
MaxClicks == 2

\* ------------------------------------------------------------------ names
Tables ==
  {"countries_metadata", "world_population", "world_happiness",
   "quality_of_life", "legatum_prosperity", "gdp_table", "countries_data"}

Sources == {"api", "population", "happiness", "quality", "legatum", "gdp"}

\* The destination table of each source.
TableOf(s) ==
  CASE s = "api"        -> "countries_metadata"
    [] s = "population" -> "world_population"
    [] s = "happiness"  -> "world_happiness"
    [] s = "quality"    -> "quality_of_life"
    [] s = "legatum"    -> "legatum_prosperity"
    [] s = "gdp"        -> "gdp_table"

\* csv_insert.main handles the three files in this order.
CsvOrder == <<"population", "happiness", "quality">>
\* webscraping_insert.main handles the two pages in this order.
ScrapeOrder == <<"legatum", "gdp">>

Scripts == {"api", "csv", "scrape", "join"}
\* The tables a script drops or writes.
Owned(sc) ==
  CASE sc = "api"    -> {"countries_metadata"}
    [] sc = "csv"    -> {"world_population", "world_happiness", "quality_of_life"}
    [] sc = "scrape" -> {"legatum_prosperity", "gdp_table"}
    [] sc = "join"   -> {"countries_data"}
    [] OTHER         -> {}

\* The order of a full pipeline run.
PipelineOrder == <<"api", "csv", "scrape", "join">>

\* ------------------------------------------------------------ canonicalizers
\* transform_data with its elif branch left out.
CanonApiUsOnly(n) ==
  CASE n = "United States" -> "United States of America"
    [] OTHER               -> n

\* api_insert.transform_data
CanonApi(n) ==
  CASE n = "United States" -> "United States of America"
    [] n = "DR Congo"      -> "Democratic Republic of the Congo"
    [] OTHER               -> n

\* csv_insert.ingest_population_csv, the CASE of the SELECT
CanonPopulation(n) ==
  CASE n = "United States"            -> "United States of America"
    [] n = "Congo"                    -> "Republic of the Congo"
    [] n = "Sao Tome & Principe"      -> "São Tomé and Príncipe"
    [] n = "DR Congo"                 -> "Democratic Republic of the Congo"
    [] n = "Côte d'Ivoire"            -> "Ivory Coast"
    [] n = "Czech Republic (Czechia)" -> "Czechia"
    [] OTHER                          -> n

\* csv_insert.ingest_happiness_csv
CanonHappiness(n) ==
  CASE n = "United States"     -> "United States of America"
    [] n = "Congo Brazzaville" -> "Republic of the Congo"
    [] n = "Congo Kinshasa"    -> "Democratic Republic of the Congo"
    [] n = "North Cyprus"      -> "Cyprus"
    [] n = "Turkiye"           -> "Turkey"
    [] OTHER                   -> n

\* csv_insert.ingest_quality_of_life_csv
CanonQuality(n) ==
  CASE n = "United States"         -> "United States of America"
    [] n = "Sao Tome And Principe" -> "São Tomé and Príncipe"
    [] n = "Cape Verde"            -> "Cabo Verde"
    [] n = "Trinidad And Tobago"   -> "Trinidad and Tobago"
    [] n = "Czech Republic"        -> "Czechia"
    [] n = "Hong Kong (China)"     -> "Hong Kong"
    [] OTHER                       -> n

\* The adjustments with the name of the larger Congo shortened to a name that
\* is itself adjusted.
CanonLegatumChained(n) ==
  CASE n = "United States"                -> "United States of America"
    [] n = "Congo"                        -> "Republic of the Congo"
    [] n = "Democratic Republic of Congo" -> "Congo"
    [] n = "Czech Republic"               -> "Czechia"
    [] n = "Côte d'Ivoire"                -> "Ivory Coast"
    [] n = "Swaziland"                    -> "Eswatini"
    [] OTHER                              -> n

\* webscraping_insert.process_legatum_df, adjustments
CanonLegatum(n) ==
  CASE n = "United States"                -> "United States of America"
    [] n = "Congo"                        -> "Republic of the Congo"
    [] n = "Democratic Republic of Congo" -> "Democratic Republic of the Congo"
    [] n = "Czech Republic"               -> "Czechia"
    [] n = "Côte d'Ivoire"                -> "Ivory Coast"
    [] n = "Swaziland"                    -> "Eswatini"
    [] OTHER                              -> n

\* The adjustments matched on the name before a parenthesis.
CanonGdpLoose(n) ==
  CASE n = "United States"            -> "United States of America"
    [] n = "Czech Republic (Czechia)" -> "Czechia"
    [] n = "Czech Republic"           -> "Czechia"
    [] n = "Sao Tome & Principe"      -> "São Tomé and Príncipe"
    [] n = "Côte d'Ivoire"            -> "Ivory Coast"
    [] n = "Congo"                    -> "Republic of the Congo"
    [] n = "DR Congo"                 -> "Democratic Republic of the Congo"
    [] OTHER                          -> n

\* webscraping_insert.process_worldometers_df, adjustments
CanonGdp(n) ==
  CASE n = "United States"            -> "United States of America"
    [] n = "Czech Republic (Czechia)" -> "Czechia"
    [] n = "Sao Tome & Principe"      -> "São Tomé and Príncipe"
    [] n = "Côte d'Ivoire"            -> "Ivory Coast"
    [] n = "Congo"                    -> "Republic of the Congo"
    [] n = "DR Congo"                 -> "Democratic Republic of the Congo"
    [] OTHER                          -> n

Canon(s, n) ==
  CASE s = "api"        -> CanonApi(n)
    [] s = "population" -> CanonPopulation(n)
    [] s = "happiness"  -> CanonHappiness(n)
    [] s = "quality"    -> CanonQuality(n)
    [] s = "legatum"    -> CanonLegatum(n)
    [] s = "gdp"        -> CanonGdp(n)

\* The raw names each source's mapping table has as keys.
Keys(s) ==
  CASE s = "api" -> {"United States", "DR Congo"}
    [] s = "population" ->
         {"United States", "Congo", "Sao Tome & Principe", "DR Congo",
          "Côte d'Ivoire", "Czech Republic (Czechia)"}
    [] s = "happiness" ->
         {"United States", "Congo Brazzaville", "Congo Kinshasa", "North Cyprus",
          "Turkiye"}
    [] s = "quality" ->
         {"United States", "Sao Tome And Principe", "Cape Verde",
          "Trinidad And Tobago", "Czech Republic", "Hong Kong (China)"}
    [] s = "legatum" ->
         {"United States", "Congo", "Democratic Republic of Congo",
          "Czech Republic", "Côte d'Ivoire", "Swaziland"}
    [] s = "gdp" ->
         {"United States", "Czech Republic (Czechia)", "Sao Tome & Principe",
          "Côte d'Ivoire", "Congo", "DR Congo"}

\* ------------------------------------------------------------------- state
VARIABLES
  store,    \* countries.ddb: table name -> [exists, cols, rows]
  faults,   \* what is wrong with the sources of this run (fixed while it runs)
  failAt,   \* the API record on which executemany fails, under that fault
  raw,      \* the raw country names each source delivers, in order
  years,    \* the Year cell of each line of the happiness CSV
  page,     \* the <table> elements of the Legatum page, in document order
  gdp_page, \* the <table> elements of the Worldometers page, in document order
  other,    \* a second process running a script against the same file
  dash,     \* the dashboard: its session, its widgets and what it shows
  script,   \* the script that is running or ran last ("none" at first)
  pc,       \* the statement that script executes next ("done": it has ended)
  idx,      \* position in the script's loop over files, pages or records
  conn,     \* number of handles the script's process holds on countries.ddb
  data,     \* the script's local result: transformed_data, or the DataFrame
  outcome,  \* how the last script ended
  before,   \* the store as it was when the running script started
  pass,     \* how many scripts of a pipeline pass have been started in order
  snap      \* the contents a full pass left, while the next pass repeats it

vars ==
  <<store, faults, failAt, raw, years, page, gdp_page, other, dash, script, pc,
    idx, conn, data, outcome, before, pass, snap>>

\* A row carries its country and whether the running script wrote it (run = 1)
\* or an earlier run did (run = 0).
Row(c, r) == [Country |-> c, run |-> r]

\* A row of world_happiness carries its year as well.
YearRow(c, y, r) == [Country |-> c, Year |-> y, run |-> r]

\* A row of a DataFrame that has no Country column.
NoCountryRow(r) == [run |-> r]

Absent == [exists |-> FALSE, cols |-> {}, rows |-> <<>>]
Empty(cols) == [exists |-> TRUE, cols |-> cols, rows |-> <<>>]

None == <<"None">>
NoSnap == <<"NoSnap">>

RECURSIVE SeqMap(_, _)
\* The rows a source's normalizer emits for the raw names ns: one per record.
SeqMap(s, ns) ==
  IF ns = <<>> THEN <<>>
  ELSE <<Row(Canon(s, Head(ns)), 1)>> \o SeqMap(s, Tail(ns))

RECURSIVE HappinessRows(_, _)
\* The rows the SELECT of ingest_happiness_csv emits for the lines whose
\* Country cells are ns and whose Year cells are ys.
HappinessRows(ns, ys) ==
  IF ns = <<>> THEN <<>>
  ELSE <<YearRow(Canon("happiness", Head(ns)), Head(ys), 1)>>
         \o HappinessRows(Tail(ns), Tail(ys))

RECURSIVE Repeat(_, _)
Repeat(r, n) == IF n = 0 THEN <<>> ELSE <<r>> \o Repeat(r, n - 1)

\* A row as a query returns it.
Visible(row) == [f \in DOMAIN row \ {"run"} |-> row[f]]

\* What a reader sees: which tables exist, their columns and their rows.
Content(st) ==
  [t \in Tables |->
     [exists |-> st[t].exists,
      cols |-> st[t].cols,
      rows |-> [i \in 1..Len(st[t].rows) |-> Visible(st[t].rows[i])]]]

\* Every row now in the store was written before the script that starts.
Aged(st) ==
  [t \in Tables |->
     [st[t] EXCEPT !.rows = [i \in 1..Len(st[t].rows) |->
                               [st[t].rows[i] EXCEPT !.run = 0]]]]

\* ----------------------------------------------------------------- columns
\* The columns of the CREATE TABLE statements.
Columns(t) ==
  CASE t = "countries_metadata" ->
         {"Country", "Region", "Subregion", "Currencies", "Languages", "Flag_URL"}
    [] t = "world_population" ->
         {"Country", "Population", "PopChange", "DensityKm2", "LandAreaKm2",
          "FertRate", "MedAge"}
    [] t = "world_happiness" -> {"Country", "Year", "Happiness"}
    [] t = "quality_of_life" ->
         {"Country", "PurchasingPower", "Climate", "CostofLiving",
          "TrafficCommuteTime", "Pollution"}

\* The header columns of the Legatum table that process_legatum_df handles.
LegatumHeader == {"Rank", "Country[1]", "Average Score"}

\* The columns process_worldometers_df requires of the GDP table.
required_columns == {"Country", "GDP  (nominal, 2023)", "GDP growth", "GDP per capita"}

\* df.rename(columns={old: new})
Rename(cols, old, new) ==
  IF old \in cols THEN (cols \ {old}) \cup {new} ELSE cols

\* A DataFrame is <<its columns, its rows>>.
\* process_legatum_df: drops Rank, renames two columns and adjusts the names
\* of the Country column if there is one; it returns a DataFrame in any case.
process_legatum_df(df) ==
  LET dropped == df[1] \ {"Rank"}
      renamed == Rename(Rename(dropped, "Country[1]", "Country"),
                        "Average Score", "Average Prosperity Score")
  IN <<renamed,
       IF "Country" \in renamed
         THEN SeqMap("legatum", df[2])
         ELSE Repeat(NoCountryRow(1), Len(df[2]))>>

\* process_worldometers_df: None when a required column is missing; else the
\* required columns, GDP renamed, names adjusted, numbers coerced.
process_worldometers_df(df) ==
  IF ~(required_columns \subseteq df[1]) THEN None
  ELSE <<Rename(required_columns, "GDP  (nominal, 2023)", "GDP"),
         SeqMap("gdp", df[2])>>

\* SELECT * over joins USING (Country): the columns of the four tables.
JoinColumns(st) ==
  st["countries_metadata"].cols \cup st["legatum_prosperity"].cols
    \cup st["gdp_table"].cols \cup st["world_population"].cols

\* --------------------------------------------------------------- SQL steps
\* The DROP left out: the table stays as it is.
KeepTable(st, t) == st

\* DROP TABLE IF EXISTS t
DropTable(st, t) == [st EXCEPT ![t] = Absent]

\* CREATE TABLE t (...): an error when t exists
CanCreate(st, t) == ~st[t].exists
CreateTable(st, t) == [st EXCEPT ![t] = Empty(Columns(t))]

\* CREATE TABLE IF NOT EXISTS t (...)
CreateTableIfNotExists(st, t) ==
  IF st[t].exists THEN st ELSE [st EXCEPT ![t] = Empty(Columns(t))]

\* An INSERT that would put its rows in place of those the table holds.
InsertRowsReplacing(st, t, rows) == [st EXCEPT ![t].rows = rows]

\* INSERT INTO t ...: appends; an error when t does not exist
CanInsert(st, t) == st[t].exists
InsertRows(st, t, rows) == [st EXCEPT ![t].rows = @ \o rows]

\* CREATE TABLE t AS SELECT ...: an error when t exists
CreateTableAs(st, t, cols, rows) ==
  [st EXCEPT ![t] = [exists |-> TRUE, cols |-> cols, rows |-> rows]]

\* ------------------------------------------------------------------ faults
\* missing: the file is not there; schema: the file lacks a column the SELECT
\* names; cast: a numeric cell is malformed (the CAST of a CSV loader raises,
\* pd.to_numeric(errors='coerce') of the GDP loader gives null); net: the
\* request fails; insert, load: the bulk insert raises; nocountry, nometric:
\* the parsed HTML table lacks its Country column, or a metric column.
FaultKinds ==
  {<<"missing", "population">>, <<"missing", "happiness">>, <<"missing", "quality">>,
   <<"schema", "population">>, <<"schema", "happiness">>, <<"schema", "quality">>,
   <<"cast", "population">>, <<"cast", "happiness">>, <<"cast", "quality">>,
   <<"net", "api">>, <<"net", "legatum">>, <<"net", "gdp">>,
   <<"insert", "api">>, <<"load", "legatum">>, <<"load", "gdp">>,
   <<"cast", "gdp">>,
   <<"nocountry", "legatum">>, <<"nocountry", "gdp">>,
   <<"nometric", "legatum">>, <<"nometric", "gdp">>}

Fault(kind, s) == <<kind, s>> \in faults

\* -------------------------------------------------------------------- Init
\* The raw names the join claims are explored with: under the population,
\* Legatum and GDP mappings "Congo" becomes "Republic of the Congo"; the API
\* mapping leaves it alone.
RawNames == {"Congo", "Republic of the Congo"}

SeqsUpTo(S, n) == UNION {[1..k -> S] : k \in 0..n}

DefaultRaw ==
  [s \in Sources |->
     CASE s = "api"        -> <<"Chad", "DR Congo">>
       [] s = "population" -> <<"Chad", "DR Congo">>
       [] s = "happiness"  -> <<"Chad", "Congo Kinshasa">>
       [] s = "quality"    -> <<"Chad">>
       [] s = "legatum"    -> <<"Chad", "Democratic Republic of Congo">>
       [] s = "gdp"        -> <<"Chad", "DR Congo">>]

JoinSources == {"api", "legatum", "gdp", "population"}

\* The years of the happiness survey that Init draws.
Years == {2023, 2024}
DefaultYears == <<2024, 2024>>

\* The Legatum page as published: one table, of class wikitable, with a Rank
\* column, holding the rows ns.
PageOf(ns) == <<[wikitable |-> TRUE, rank |-> TRUE, rows |-> ns]>>

\* The Worldometers page as published: one table, of id example2, holding
\* the rows ns.
GdpPageOf(ns) == <<[example2 |-> TRUE, rows |-> ns]>>

\* No second process.
NoOther ==
  [script |-> "none", pc |-> "off", idx |-> 1, outcome |-> "none", raced |-> FALSE]

\* The columns of table t after a run on healthy sources.
HealthyColumns(t) ==
  LET legatum == process_legatum_df(<<LegatumHeader, <<>>>>)[1]
      gdp == process_worldometers_df(<<required_columns, <<>>>>)[1]
  IN CASE t = "legatum_prosperity" -> legatum
       [] t = "gdp_table" -> gdp
       [] t = "countries_data" ->
            Columns("countries_metadata") \cup legatum \cup gdp
              \cup Columns("world_population")
       [] OTHER -> Columns(t)

\* No database file yet, or the tables an earlier run on other data left.
FreshStore == [t \in Tables |-> Absent]
OldStore ==
  [t \in Tables |->
     [exists |-> TRUE,
      cols |-> HealthyColumns(t),
      rows |-> IF t = "world_happiness"
                 THEN <<YearRow("Niger", 2024, 0)>> ELSE <<Row("Niger", 0)>>]]

\* The rows of R of country c.
Count(R, c) == Cardinality({i \in 1..Len(R) : R[i].Country = c})

\* ---------------------------------------------------------------- dashboard
\* streamlit_app.py.  Streamlit runs the script from its first line once when
\* the page is opened and once more after every interaction with a widget;
\* st.session_state and the values of the widgets outlive a run, the script's
\* variables do not.  Rendering a widget is taken to succeed; the boundary
\* file of the map is taken to load and to name every country of the data.

\* The countries the tables behind the dashboard are explored with.
DashNames == <<"Chad", "Cyprus", "Niger", "Nepal">>

\* How many of them the tables hold.
DashCount == IF MaxRows < Len(DashNames) THEN MaxRows ELSE Len(DashNames)

Rank(c) == CHOOSE i \in 1..Len(DashNames) : DashNames[i] = c

\* The Region and Subregion the API delivers for a country.
RegionOf(c) ==
  CASE c = "Cyprus" -> "Europe"
    [] c = "Nepal"  -> "Asia"
    [] OTHER        -> "Africa"

SubregionOf(c) ==
  CASE c = "Chad"   -> "Middle Africa"
    [] c = "Cyprus" -> "Southern Europe"
    [] c = "Niger"  -> "Western Africa"
    [] OTHER        -> "Southern Asia"

\* The Index cell of the happiness file for a country and a year, and the
\* value of a country in every metric column of countries_data.
HappinessOf(c, y) == Rank(c) + (y - 2023)
MetricOf(c) == Rank(c)

\* world_happiness with one line per year for each of the first k countries.
WorldHappiness(k) ==
  [exists |-> TRUE,
   cols |-> HealthyColumns("world_happiness"),
   rows |-> [j \in 1..(2 * k) |->
               YearRow(DashNames[(j + 1) \div 2],
                       IF j % 2 = 1 THEN 2023 ELSE 2024, 0)]]

\* countries_data with a row for each of the first m countries.
CountriesData(m) ==
  [exists |-> TRUE,
   cols |-> HealthyColumns("countries_data"),
   rows |-> [j \in 1..m |-> Row(DashNames[j], 0)]]

\* The stores the dashboard is opened on: no database yet; the happiness
\* table loaded and countries_data absent, as a failed join leaves it; and
\* countries_data holding none, some or all of the countries.
DashStores ==
  {FreshStore}
    \cup {[FreshStore EXCEPT !["world_happiness"] = WorldHappiness(DashCount),
                             !["countries_data"] = cd] :
            cd \in {Absent} \cup {CountriesData(m) : m \in 0..DashCount}}

\* A variable of the script that no statement has assigned.
Unbound == <<"unbound">>

\* selected_year = None
NoYear == 0

\* A row of joined_data; label is its index label.
JoinedRow(c, y, label) ==
  [Country |-> c, Year |-> y, Happiness |-> HappinessOf(c, y),
   Region |-> RegionOf(c), Subregion |-> SubregionOf(c),
   Metric |-> MetricOf(c), label |-> label]

\* The query of the data loading raises when a table is missing or has no
\* Country column.
LoadRaises(st) ==
  \/ ~st["world_happiness"].exists
  \/ ~st["countries_data"].exists
  \/ "Country" \notin st["world_happiness"].cols
  \/ "Country" \notin st["countries_data"].cols

RECURSIVE LoadPairs(_, _)
\* world_happiness INNER JOIN countries_data USING (Country), as the
\* (Country, Year) of each row of the result.
LoadPairs(L, R) ==
  IF L = <<>> THEN <<>>
  ELSE Repeat(<<Head(L).Country, Head(L).Year>>, Count(R, Head(L).Country))
         \o LoadPairs(Tail(L), R)

\* conn.execute(query).fetchdf()
fetchdf(st) ==
  LET pairs == LoadPairs(st["world_happiness"].rows, st["countries_data"].rows)
  IN <<st["world_happiness"].cols \cup st["countries_data"].cols,
       [k \in 1..Len(pairs) |-> JoinedRow(pairs[k][1], pairs[k][2], k - 1)]>>

\* The column names the range sliders below the subregion filter test for,
\* and the column each reads.
SliderTests ==
  {"GDP per capita", "Average Prosperity Score", "Population", "Fert_Rate",
   "Med_Age", "DensityKm2", "PurchasingPower", "Climate", "CostofLiving",
   "Pollution"}

SliderUse(c) ==
  CASE c = "Fert_Rate" -> "FertRate"
    [] c = "Med_Age"   -> "MedAge"
    [] OTHER           -> c

\* The dashboard before it is opened.
DashOff ==
  [pc |-> "off", joined |-> Unbound, error |-> FALSE, exception |-> "none",
   has_countries |-> FALSE, countries |-> {},
   has_subregions |-> FALSE, subregions |-> {},
   year |-> NoYear, regions_set |-> FALSE, regions |-> {},
   hrange |-> <<>>, ranges |-> [c \in SliderTests |-> <<>>],
   selected_year |-> NoYear, happiness_range |-> <<>>,
   filtered |-> <<>>, table |-> {}, map |-> {}, clicks |-> 0]

\* What every run starts from, whatever its sources hold.
Idle ==
  /\ before = store
  /\ script = "none"
  /\ pc = "done"
  /\ idx = 1
  /\ conn = 0
  /\ data = None
  /\ outcome = "none"
  /\ pass = 0
  /\ snap = NoSnap

\* Sources with up to MaxFaults failures, over either store.
Init ==
  /\ faults \in {F \in SUBSET FaultKinds : Cardinality(F) <= MaxFaults}
  /\ failAt \in IF <<"insert", "api">> \in faults
                THEN 1..Len(DefaultRaw["api"]) ELSE {1}
  /\ raw = DefaultRaw
  /\ years = DefaultYears
  /\ page = PageOf(DefaultRaw["legatum"])
  /\ gdp_page = GdpPageOf(DefaultRaw["gdp"])
  /\ other = NoOther
  /\ dash = DashOff
  /\ store \in {OldStore, FreshStore}
  /\ Idle

\* Healthy sources holding any raw names, for the four tables of the join.
InitData ==
  /\ faults = {}
  /\ failAt = 1
  /\ raw \in {[DefaultRaw EXCEPT !["api"] = a, !["legatum"] = l,
                                 !["gdp"] = g, !["population"] = p] :
                a \in SeqsUpTo(RawNames, MaxRows),
                l \in SeqsUpTo(RawNames, MaxRows),
                g \in SeqsUpTo(RawNames, MaxRows),
                p \in SeqsUpTo(RawNames, MaxRows)}
  /\ years = DefaultYears
  /\ page = PageOf(raw["legatum"])
  /\ gdp_page = GdpPageOf(raw["gdp"])
  /\ other = NoOther
  /\ dash = DashOff
  /\ store = FreshStore
  /\ Idle

\* ------------------------------------------------------------ script start
\* What the steps of the running script leave alone.
Env == <<faults, failAt, raw, years, page, gdp_page, other, dash>>

\* api_insert.main without its call of create_db_and_table_if_not_exists.
FirstPcNoRecreate(sc) ==
  CASE sc = "api"    -> "fetch"
    [] sc = "csv"    -> "check"
    [] sc = "scrape" -> "scrape"
    [] sc = "join"   -> "drop"

\* The first statement of each script's main.
FirstPc(sc) ==
  CASE sc = "api"    -> "drop"
    [] sc = "csv"    -> "check"
    [] sc = "scrape" -> "scrape"
    [] sc = "join"   -> "drop"

\* The operator starts a script once the one before has ended.  pass and snap
\* follow whether the scripts run in pipeline order.
Start(sc) ==
  /\ pc = "done"
  /\ script' = sc
  /\ pc' = FirstPc(sc)
  /\ idx' = 1
  /\ conn' = 0
  /\ data' = None
  /\ outcome' = "running"
  /\ store' = Aged(store)
  /\ before' = Aged(store)
  /\ IF pass = Len(PipelineOrder) /\ sc = PipelineOrder[1]
       THEN pass' = 1 /\ snap' = Content(store)
     ELSE IF pass < Len(PipelineOrder) /\ sc = PipelineOrder[pass + 1]
       THEN pass' = pass + 1 /\ snap' = (IF pass = 0 THEN NoSnap ELSE snap)
     ELSE pass' = (IF sc = PipelineOrder[1] THEN 1 ELSE 0) /\ snap' = NoSnap
  /\ UNCHANGED Env

\* A script ends: its process exits and releases every handle.
Ends(how) ==
  /\ pc' = "done"
  /\ outcome' = how
  /\ conn' = 0

Ghost == <<before, pass, snap>>

\* ------------------------------------------------------------ api_insert.py
\* create_db_and_table_if_not_exists: connect; DROP TABLE IF EXISTS
create_db_and_table_if_not_exists_drop ==
  /\ script = "api" /\ pc = "drop"
  /\ store' = DropTable(store, "countries_metadata")
  /\ conn' = 1
  /\ pc' = "create"
  /\ UNCHANGED <<Env, Ghost, script, idx, data, outcome>>

\* create_db_and_table_if_not_exists: CREATE TABLE IF NOT EXISTS; close
create_db_and_table_if_not_exists_create ==
  /\ script = "api" /\ pc = "create"
  /\ store' = CreateTableIfNotExists(store, "countries_metadata")
  /\ conn' = 0
  /\ pc' = "fetch"
  /\ UNCHANGED <<Env, Ghost, script, idx, data, outcome>>

\* fetch_countries_data: the JSON array, or [] on a RequestException
fetch_countries_data == IF Fault("net", "api") THEN <<>> ELSE raw["api"]

\* A country object of the API response that has no "name", or a Country
\* cell of a CSV line or of a table row that is empty.
NoName == "<no name>"

\* country.get("name", {}).get("common", "Unknown")
common_name(n) == IF n = NoName THEN "Unknown" ELSE n

\* transform_data with the objects that have no name left out.
transform_data_named(d) == SeqMap("api", SelectSeq(d, LAMBDA n : n # NoName))

\* transform_data: one tuple per country object
transform_data(d) == SeqMap("api", [i \in 1..Len(d) |-> common_name(d[i])])

\* main: fetch, return when nothing was fetched, else transform
api_main_fetch ==
  /\ script = "api" /\ pc = "fetch"
  /\ LET raw_data == fetch_countries_data IN
       IF raw_data = <<>>
         THEN Ends("return") /\ UNCHANGED <<data, idx>>
         ELSE /\ data' = transform_data(raw_data)
              /\ idx' = 1
              /\ pc' = "insert"
              /\ UNCHANGED <<conn, outcome>>
  /\ UNCHANGED <<Env, Ghost, script, store>>

\* executemany runs the INSERT once per tuple, each run committed on its own;
\* it raises on the tuple it cannot insert.
ExecuteRaises(i) ==
  \/ ~CanInsert(store, "countries_metadata")
  \/ Fault("insert", "api") /\ failAt = i

\* insert_into_duckdb: connect; executemany; close
insert_into_duckdb ==
  /\ script = "api" /\ pc = "insert"
  /\ IF data = <<>>
       THEN Ends("ok") /\ UNCHANGED <<store, idx>>
     ELSE IF ExecuteRaises(idx)
       THEN Ends("exception") /\ UNCHANGED <<store, idx>>
     ELSE /\ store' = InsertRows(store, "countries_metadata", <<data[idx]>>)
          /\ IF idx = Len(data)
               THEN Ends("ok") /\ UNCHANGED idx
               ELSE idx' = idx + 1 /\ conn' = 1 /\ UNCHANGED <<pc, outcome>>
  /\ UNCHANGED <<Env, Ghost, script, data>>

\* ------------------------------------------------------------ csv_insert.py
\* Only the two files the comment of main speaks of are checked.
path_exists_both(s) == s = "quality" \/ ~Fault("missing", s)

\* os.path.exists on the file of source s
path_exists(s) == ~Fault("missing", s)

\* main: the three existence checks, in order; sys.exit(1) on the first
\* file that is missing
csv_main_check ==
  /\ script = "csv" /\ pc = "check"
  /\ IF ~path_exists(CsvOrder[idx])
       THEN Ends("exit1") /\ UNCHANGED idx
     ELSE IF idx < Len(CsvOrder)
       THEN idx' = idx + 1 /\ UNCHANGED <<pc, outcome, conn>>
     ELSE pc' = "drop" /\ idx' = 1 /\ UNCHANGED <<outcome, conn>>
  /\ UNCHANGED <<Env, Ghost, script, store, data>>

\* recreate_tables: connect; the three DROP TABLE IF EXISTS
recreate_tables_drop ==
  /\ script = "csv" /\ pc = "drop"
  /\ store' = DropTable(store, TableOf(CsvOrder[idx]))
  /\ conn' = 1
  /\ IF idx < Len(CsvOrder)
       THEN idx' = idx + 1 /\ UNCHANGED pc
       ELSE pc' = "create" /\ idx' = 1
  /\ UNCHANGED <<Env, Ghost, script, data, outcome>>

\* recreate_tables: the three CREATE TABLE; close
recreate_tables_create ==
  /\ script = "csv" /\ pc = "create"
  /\ IF ~CanCreate(store, TableOf(CsvOrder[idx]))
       THEN Ends("exception") /\ UNCHANGED <<store, idx>>
     ELSE /\ store' = CreateTable(store, TableOf(CsvOrder[idx]))
          /\ IF idx < Len(CsvOrder)
               THEN idx' = idx + 1 /\ UNCHANGED <<pc, conn>>
               ELSE pc' = "ingest" /\ idx' = 1 /\ conn' = 0
          /\ UNCHANGED outcome
  /\ UNCHANGED <<Env, Ghost, script, data>>

\* INSERT INTO ... SELECT ... FROM read_csv_auto(file): one statement.  It
\* raises when a column it names is not in the file or a cell cannot be
\* cast, and then it inserts nothing.
SelectRaises(s) ==
  \/ Fault("missing", s)
  \/ Fault("schema", s)
  \/ Fault("cast", s)
  \/ ~CanInsert(store, TableOf(s))

\* The rows the SELECT over the file of source s returns.
SelectRows(s) ==
  IF s = "happiness" THEN HappinessRows(raw[s], years) ELSE SeqMap(s, raw[s])

\* The store after the INSERT ... SELECT of source s.
InsertSelect(st, s) == InsertRows(st, TableOf(s), SelectRows(s))

\* Rows inserted one by one: those before the bad line stay.
FailedInsertSelectPartial(st, s) ==
  IF CanInsert(st, TableOf(s))
    THEN InsertRows(st, TableOf(s), SubSeq(SelectRows(s), 1, 1))
    ELSE st

\* The store after an INSERT ... SELECT that raised: the statement is undone.
FailedInsertSelect(st, s) == st

\* One ingest_*_csv call of main; keeps is the number of handles the function
\* leaves open when it returns.  An exception is not caught: it ends main.
IngestCsv(s, keeps) ==
  /\ script = "csv" /\ pc = "ingest" /\ CsvOrder[idx] = s
  /\ IF SelectRaises(s)
       THEN /\ store' = FailedInsertSelect(store, s)
            /\ Ends("exception")
            /\ UNCHANGED idx
     ELSE /\ store' = InsertSelect(store, s)
          /\ conn' = conn + keeps
          /\ IF idx < Len(CsvOrder)
               THEN idx' = idx + 1 /\ UNCHANGED pc
               ELSE pc' = "exit" /\ UNCHANGED idx
          /\ UNCHANGED outcome
  /\ UNCHANGED <<Env, Ghost, script, data>>

\* connect; INSERT ... SELECT; close
ingest_population_csv == IngestCsv("population", 0)

\* connect; INSERT ... SELECT; close
ingest_happiness_csv == IngestCsv("happiness", 0)

\* connect; INSERT ... SELECT (the function does not close its connection)
ingest_quality_of_life_csv == IngestCsv("quality", 1)

\* main: print "Ingestion completed successfully." and return
csv_main_exit ==
  /\ script = "csv" /\ pc = "exit"
  /\ Ends("ok")
  /\ UNCHANGED <<Env, Ghost, script, store, idx, data>>

\* ---------------------------------------------------- webscraping_insert.py
\* fetch_soup without its try/except: the RequestException reaches main.
fetch_soup_uncaught(s) == IF Fault("net", s) THEN "raise" ELSE "soup"

\* fetch_soup: the parsed page, or None on a RequestException
fetch_soup(s) == IF Fault("net", s) THEN "None" ELSE "soup"

\* main goes on to the next page, or returns after the last.
NextPage ==
  IF idx < Len(ScrapeOrder)
    THEN idx' = idx + 1 /\ pc' = "scrape" /\ UNCHANGED outcome
    ELSE pc' = "done" /\ outcome' = "ok" /\ UNCHANGED idx

\* The wikitables of the page, by position.
Wikitables(pg) == {i \in 1..Len(pg) : pg[i].wikitable}

\* The least of a non-empty set of positions.
First(S) == CHOOSE i \in S : \A j \in S : i <= j

\* extract_legatum_table without its loop: tables[0] in every case.
extract_first_wikitable(pg) ==
  IF Wikitables(pg) = {} THEN 0 ELSE First(Wikitables(pg))

\* extract_legatum_table: the position of the table it returns, 0 for None.
\* find_all keeps the tables of class wikitable; the loop breaks at the first
\* whose text contains 'Rank'; without one, tables[0].
extract_legatum_table(pg) ==
  LET tables == Wikitables(pg)
      target == {i \in tables : pg[i].rank}
  IN IF tables = {} THEN 0
     ELSE IF target # {} THEN First(target)
     ELSE First(tables)

\* extract_worldometers_table without its lookup by id: the first table.
extract_first_table(pg) == IF pg = <<>> THEN 0 ELSE 1

\* extract_worldometers_table: the position of the table it returns, 0 for
\* None.  soup.find gives the first table of id example2; without one, the
\* first table of the page.
extract_worldometers_table(pg) ==
  LET byId == {i \in 1..Len(pg) : pg[i].example2}
  IN IF byId # {} THEN First(byId)
     ELSE IF pg = <<>> THEN 0
     ELSE 1

\* The header of the table parsed from the page of source s: the columns the
\* code names, less the one a fault takes away.
Header(s) ==
  LET full == IF s = "legatum" THEN LegatumHeader ELSE required_columns
      country == IF s = "legatum" THEN "Country[1]" ELSE "Country"
      metric == IF s = "legatum" THEN "Average Score" ELSE "GDP growth"
  IN (full \ (IF Fault("nocountry", s) THEN {country} ELSE {}))
       \ (IF Fault("nometric", s) THEN {metric} ELSE {})

\* read_table_from_soup: the DataFrame of table i of the Legatum page; a table
\* whose text has no 'Rank' has no Rank column.
read_table_from_soup(pg, i) ==
  <<IF pg[i].rank THEN Header("legatum") ELSE Header("legatum") \ {"Rank"},
    pg[i].rows>>

\* scrape_legatum_index / scrape_worldometers_gdp after the page was fetched:
\* the processed DataFrame, or None.
Processed(s) ==
  IF s = "legatum"
    THEN LET table == extract_legatum_table(page) IN
           IF table = 0 THEN None
           ELSE process_legatum_df(read_table_from_soup(page, table))
    ELSE LET table == extract_worldometers_table(gdp_page) IN
           IF table = 0 THEN None
           ELSE process_worldometers_df(<<Header("gdp"), gdp_page[table].rows>>)

\* scrape_legatum_index / scrape_worldometers_gdp and main's test of the
\* result: the processed DataFrame, or None and on to the next page.
Scrape(s) ==
  /\ script = "scrape" /\ pc = "scrape" /\ ScrapeOrder[idx] = s
  /\ LET soup == fetch_soup(s) IN
       CASE soup = "None" ->
              data' = None /\ NextPage /\ UNCHANGED conn
         [] soup = "soup" ->
              LET df == Processed(s) IN
                IF df = None
                  THEN data' = None /\ NextPage /\ UNCHANGED conn
                  ELSE /\ data' = df
                       /\ pc' = "drop"
                       /\ UNCHANGED <<idx, outcome, conn>>
         [] OTHER -> Ends("exception") /\ UNCHANGED <<data, idx>>
  /\ UNCHANGED <<Env, Ghost, script, store>>

scrape_legatum_index == Scrape("legatum")

scrape_worldometers_gdp == Scrape("gdp")

\* create_and_ingest_data: connect; DROP TABLE IF EXISTS
create_and_ingest_data_drop ==
  /\ script = "scrape" /\ pc = "drop"
  /\ store' = DropTable(store, TableOf(ScrapeOrder[idx]))
  /\ conn' = 1
  /\ pc' = "create_as"
  /\ UNCHANGED <<Env, Ghost, script, idx, data, outcome>>

\* CREATE TABLE ... AS SELECT * FROM df_temp raises
CreateAsRaises(s) == Fault("load", s) \/ store[TableOf(s)].exists

\* create_and_ingest_data: register; CREATE TABLE AS; the except clause
\* swallows an error; finally close
create_and_ingest_data_create ==
  /\ script = "scrape" /\ pc = "create_as"
  /\ LET s == ScrapeOrder[idx] IN
       IF CreateAsRaises(s)
         THEN UNCHANGED store
         ELSE store' = CreateTableAs(store, TableOf(s), data[1], data[2])
  /\ conn' = 0
  /\ NextPage
  /\ UNCHANGED <<Env, Ghost, script, data>>

\* ---------------------------------------------------------- process_data.py
RECURSIVE JoinUsing(_, _)
\* L INNER JOIN R USING (Country): one row per pair of rows that agree on
\* Country.
JoinUsing(L, R) ==
  IF L = <<>> THEN <<>>
  ELSE Repeat(Row(Head(L).Country, 1), Count(R, Head(L).Country))
         \o JoinUsing(Tail(L), R)

\* The query with its last join left out.
JoinQueryWithoutPopulation(st) ==
  JoinUsing(JoinUsing(st["countries_metadata"].rows,
                      st["legatum_prosperity"].rows),
            st["gdp_table"].rows)

\* The SELECT of create_countries_data_table.
JoinQuery(st) ==
  JoinUsing(JoinUsing(JoinUsing(st["countries_metadata"].rows,
                                st["legatum_prosperity"].rows),
                      st["gdp_table"].rows),
            st["world_population"].rows)

\* The SELECT raises when a table it reads does not exist or has no Country
\* column.
JoinRaises(st) ==
  \/ \E s \in JoinSources : ~st[TableOf(s)].exists
  \/ \E s \in JoinSources : "Country" \notin st[TableOf(s)].cols
  \/ st["countries_data"].exists

\* The store after a CREATE TABLE t AS that raised, with the table dropped
\* before it put back as the run found it.
FailedCreateTableAsRestoring(st, t) == [st EXCEPT ![t] = before[t]]

\* The store after a CREATE TABLE t AS that raised: the statement is undone,
\* the DROP before it stays committed.
FailedCreateTableAs(st, t) == st

\* create_countries_data_table: connect; DROP TABLE IF EXISTS countries_data
create_countries_data_table_drop ==
  /\ script = "join" /\ pc = "drop"
  /\ store' = DropTable(store, "countries_data")
  /\ conn' = 1
  /\ pc' = "create"
  /\ UNCHANGED <<Env, Ghost, script, idx, data, outcome>>

\* create_countries_data_table: CREATE TABLE countries_data AS SELECT ...;
\* the except clause swallows an error; the with block closes
create_countries_data_table_create ==
  /\ script = "join" /\ pc = "create"
  /\ IF JoinRaises(store)
       THEN /\ data' = <<"error">>
            /\ store' = FailedCreateTableAs(store, "countries_data")
       ELSE /\ data' = <<"created">>
            /\ store' = CreateTableAs(store, "countries_data",
                                      JoinColumns(store), JoinQuery(store))
  /\ conn' = 0
  /\ pc' = "preview"
  /\ UNCHANGED <<Env, Ghost, script, idx, outcome>>

\* preview_countries_data: SELECT * FROM countries_data LIMIT 5, errors caught
preview_countries_data ==
  /\ script = "join" /\ pc = "preview"
  /\ Ends(IF store["countries_data"].exists THEN "ok" ELSE "preview_error")
  /\ UNCHANGED <<Env, Ghost, script, store, idx, data>>

\* -------------------------------------------------------------------- Next
Steps ==
  \/ create_db_and_table_if_not_exists_drop
  \/ create_db_and_table_if_not_exists_create
  \/ api_main_fetch
  \/ insert_into_duckdb
  \/ csv_main_check
  \/ recreate_tables_drop
  \/ recreate_tables_create
  \/ ingest_population_csv
  \/ ingest_happiness_csv
  \/ ingest_quality_of_life_csv
  \/ csv_main_exit
  \/ scrape_legatum_index
  \/ scrape_worldometers_gdp
  \/ create_and_ingest_data_drop
  \/ create_and_ingest_data_create
  \/ create_countries_data_table_drop
  \/ create_countries_data_table_create
  \/ preview_countries_data

\* The operator runs the scripts one at a time, in any order.
Next == (\E sc \in Scripts : Start(sc)) \/ Steps

Spec == Init /\ [][Next]_vars

\* The operator runs the pipeline once, in its order.
StartInOrder(sc) ==
  /\ pass < Len(PipelineOrder)
  /\ sc = PipelineOrder[pass + 1]
  /\ Start(sc)

NextData == (\E sc \in Scripts : StartInOrder(sc)) \/ Steps

SpecData == InitData /\ [][NextData]_vars

\* ------------------------------------------------------- a second process
\* A second process runs api_insert.py or csv_insert.py against the same
\* countries.ddb.  DuckDB locks the file for the process that has it open, so
\* each of its connect ... close blocks is one step, and its connect raises
\* while the first process holds a handle; neither main catches that.
Runner == <<script, pc, idx, conn, data, outcome>>
Inputs == <<faults, failAt, raw, years, page, gdp_page, dash>>

Locked == conn > 0

OtherEnds(how) == other' = [other EXCEPT !.pc = "done", !.outcome = how]

\* The operator starts the second process.
OtherStart(sc) ==
  /\ other.pc = "idle"
  /\ other' = [other EXCEPT !.script = sc, !.outcome = "running",
                            !.pc = IF sc = "api" THEN "create" ELSE "check"]
  /\ UNCHANGED <<Inputs, Runner, Ghost, store>>

\* csv_insert.main in the second process: the three existence checks
other_csv_main_check ==
  /\ other.script = "csv" /\ other.pc = "check"
  /\ IF \E i \in 1..Len(CsvOrder) : ~path_exists(CsvOrder[i])
       THEN OtherEnds("exit1")
       ELSE other' = [other EXCEPT !.pc = "recreate"]
  /\ UNCHANGED <<Inputs, Runner, Ghost, store>>

\* The store after the three DROP TABLE IF EXISTS and the three CREATE TABLE.
Recreated(st) ==
  [t \in Tables |->
     IF t \in Owned("csv") THEN CreateTable(DropTable(st, t), t)[t] ELSE st[t]]

\* recreate_tables in the second process.  raced records that the first
\* process, running csv_insert too, has recreated the tables and has not yet
\* ingested a file.
other_recreate_tables ==
  /\ other.script = "csv" /\ other.pc = "recreate"
  /\ IF Locked
       THEN OtherEnds("exception") /\ UNCHANGED store
       ELSE /\ store' = Recreated(store)
            /\ other' = [other EXCEPT
                           !.pc = "ingest", !.idx = 1,
                           !.raced = (script = "csv" /\ pc = "ingest" /\ idx = 1)]
  /\ UNCHANGED <<Inputs, Runner, Ghost>>

\* One ingest_*_csv call in the second process.
other_ingest_csv ==
  /\ other.script = "csv" /\ other.pc = "ingest"
  /\ LET s == CsvOrder[other.idx] IN
       IF Locked \/ SelectRaises(s)
         THEN OtherEnds("exception") /\ UNCHANGED store
         ELSE /\ store' = InsertSelect(store, s)
              /\ IF other.idx < Len(CsvOrder)
                   THEN other' = [other EXCEPT !.idx = @ + 1]
                   ELSE OtherEnds("ok")
  /\ UNCHANGED <<Inputs, Runner, Ghost>>

\* create_db_and_table_if_not_exists in the second process.  raced records
\* that the first process, running api_insert too, has recreated the table
\* and has not yet inserted a record.
other_create_db_and_table_if_not_exists ==
  /\ other.script = "api" /\ other.pc = "create"
  /\ IF Locked
       THEN OtherEnds("exception") /\ UNCHANGED store
       ELSE /\ store' = CreateTableIfNotExists(
                          DropTable(store, "countries_metadata"),
                          "countries_metadata")
            /\ other' = [other EXCEPT
                           !.pc = "fetch",
                           !.raced = (/\ script = "api"
                                      /\ pc \in {"fetch", "insert"}
                                      /\ idx = 1)]
  /\ UNCHANGED <<Inputs, Runner, Ghost>>

\* api_insert.main in the second process: fetch, return when nothing came
other_api_main_fetch ==
  /\ other.script = "api" /\ other.pc = "fetch"
  /\ IF fetch_countries_data = <<>>
       THEN OtherEnds("return")
       ELSE other' = [other EXCEPT !.pc = "insert"]
  /\ UNCHANGED <<Inputs, Runner, Ghost, store>>

\* insert_into_duckdb in the second process: connect; executemany; close
other_insert_into_duckdb ==
  /\ other.script = "api" /\ other.pc = "insert"
  /\ LET d == transform_data(fetch_countries_data) IN
       IF Locked \/ ~CanInsert(store, "countries_metadata")
         THEN OtherEnds("exception") /\ UNCHANGED store
       ELSE IF Fault("insert", "api")
         THEN /\ store' = InsertRows(store, "countries_metadata",
                                     SubSeq(d, 1, failAt - 1))
              /\ OtherEnds("exception")
       ELSE /\ store' = InsertRows(store, "countries_metadata", d)
            /\ OtherEnds("ok")
  /\ UNCHANGED <<Inputs, Runner, Ghost>>

OtherSteps ==
  \/ other_csv_main_check
  \/ other_recreate_tables
  \/ other_ingest_csv
  \/ other_create_db_and_table_if_not_exists
  \/ other_api_main_fetch
  \/ other_insert_into_duckdb

\* Healthy sources, no database file yet, a second process to be started.
InitRace ==
  /\ faults = {}
  /\ failAt = 1
  /\ raw = DefaultRaw
  /\ years = DefaultYears
  /\ page = PageOf(DefaultRaw["legatum"])
  /\ gdp_page = GdpPageOf(DefaultRaw["gdp"])
  /\ other = [NoOther EXCEPT !.pc = "idle"]
  /\ dash = DashOff
  /\ store = FreshStore
  /\ Idle

\* Each process runs one script, once.
StartOnce(sc) == script = "none" /\ Start(sc)

\* Two runs against the same file, with nothing to keep them apart.
NextRace ==
  \/ \E sc \in Scripts : StartOnce(sc)
  \/ Steps
  \/ \E sc \in {"api", "csv"} : OtherStart(sc)
  \/ OtherSteps

SpecRace == InitRace /\ [][NextRace]_vars

\* The raw names the canonicalizers are explored with: every key of every
\* mapping table, and names that are keys of none.
ProbeNames ==
  UNION {Keys(s) : s \in Sources} \cup {"Chad", "Cyprus", "united states"}

\* The raw names the happiness file is explored with: both map to 'Cyprus'.
HappinessNames == {"Cyprus", "North Cyprus"}

\* Healthy sources that all deliver one record of the same raw name, or a
\* happiness file of any lines beside the default sources.
InitNames ==
  /\ faults = {}
  /\ failAt = 1
  /\ \/ \E n \in ProbeNames :
          /\ raw = [s \in Sources |-> <<n>>]
          /\ years = SubSeq(DefaultYears, 1, 1)
       \/ \E h \in SeqsUpTo(HappinessNames, MaxRows) :
          /\ raw = [DefaultRaw EXCEPT !["happiness"] = h]
          /\ years \in [1..Len(h) -> Years]
  /\ page = PageOf(raw["legatum"])
  /\ gdp_page = GdpPageOf(raw["gdp"])
  /\ other = NoOther
  /\ dash = DashOff
  /\ store = FreshStore
  /\ Idle

SpecNames == InitNames /\ [][NextData]_vars

\* The rows a <table> of the Legatum page can hold: those of the prosperity
\* table, or those of some other table.
PageRows == {DefaultRaw["legatum"], <<"Mali">>}

\* The <table> elements the page is built of: of class wikitable or not, with
\* 'Rank' in its text or not.
TableKinds == [wikitable : BOOLEAN, rank : BOOLEAN, rows : PageRows]

\* Healthy sources; any Legatum page of up to MaxTables tables.
InitPage ==
  /\ faults = {}
  /\ failAt = 1
  /\ raw = DefaultRaw
  /\ years = DefaultYears
  /\ page \in SeqsUpTo(TableKinds, MaxTables)
  /\ gdp_page = GdpPageOf(DefaultRaw["gdp"])
  /\ other = NoOther
  /\ dash = DashOff
  /\ store = FreshStore
  /\ Idle

SpecPage == InitPage /\ [][NextData]_vars

\* The rows a <table> of the Worldometers page can hold: those of the GDP
\* table, or those of some other table.
GdpPageRows == {DefaultRaw["gdp"], <<"Mali">>}

\* The <table> elements that page is built of: of id example2 or not.
GdpTableKinds == [example2 : BOOLEAN, rows : GdpPageRows]

\* Healthy sources; any Worldometers page of up to MaxTables tables.
InitGdpPage ==
  /\ faults = {}
  /\ failAt = 1
  /\ raw = DefaultRaw
  /\ years = DefaultYears
  /\ page = PageOf(DefaultRaw["legatum"])
  /\ gdp_page \in SeqsUpTo(GdpTableKinds, MaxTables)
  /\ other = NoOther
  /\ dash = DashOff
  /\ store = FreshStore
  /\ Idle

SpecGdpPage == InitGdpPage /\ [][NextData]_vars

\* The names the records of a source are explored with: an unmapped name, a
\* mapped name, the name it is mapped to, and no name at all.
RecordNames == {"Chad", "United States", "United States of America", NoName}

\* Healthy sources that all deliver the same records, any of up to MaxRows.
InitRecords ==
  /\ faults = {}
  /\ failAt = 1
  /\ \E ns \in SeqsUpTo(RecordNames, MaxRows) :
       /\ raw = [s \in Sources |-> ns]
       /\ years \in [1..Len(ns) -> Years]
  /\ page = PageOf(raw["legatum"])
  /\ gdp_page = GdpPageOf(raw["gdp"])
  /\ other = NoOther
  /\ dash = DashOff
  /\ store = FreshStore
  /\ Idle

SpecRecords == InitRecords /\ [][NextData]_vars

\* ------------------------------------------------------ the dashboard script
Largest(S) == CHOOSE x \in S : \A y \in S : y <= x
Smallest(S) == CHOOSE x \in S : \A y \in S : x <= y

\* The values of field f in the rows R.
Values(R, f) == {R[k][f] : k \in 1..Len(R)}

\* df[df[f] == v], df[df[f].isin(S)] and df[(df[f] >= lo) & (df[f] <= hi)]
WhereEquals(R, f, v) == SelectSeq(R, LAMBDA r : r[f] = v)
WhereIsIn(R, f, S) == SelectSeq(R, LAMBDA r : r[f] \in S)
WhereBetween(R, f, lo, hi) == SelectSeq(R, LAMBDA r : lo <= r[f] /\ r[f] <= hi)

RECURSIVE sort_values(_)
\* sort_values(by="Happiness", ascending=False)
sort_values(R) ==
  IF R = <<>> THEN <<>>
  ELSE LET top == Largest(Values(R, "Happiness"))
       IN WhereEquals(R, "Happiness", top)
            \o sort_values(SelectSeq(R, LAMBDA r : r.Happiness # top))

\* The year filter left out.
AllYears(R, cols, y) == R

\* Filter by the selected year
FilterYear(R, cols, y) ==
  IF y # NoYear /\ "Year" \in cols THEN WhereEquals(R, "Year", y) ELSE R

\* Filter by selected Countries, and by Region: an empty list is false
FilterCountries(R, cols, selected) ==
  IF "Country" \in cols /\ selected # {}
    THEN WhereIsIn(R, "Country", selected) ELSE R

FilterRegions(R, cols, selected) ==
  IF "Region" \in cols /\ selected # {}
    THEN WhereIsIn(R, "Region", selected) ELSE R

\* Filter by Happiness Index range
FilterHappiness(R, cols, range) ==
  IF range # <<>> /\ "Happiness" \in cols
    THEN WhereBetween(R, "Happiness", range[1], range[2]) ELSE R

\* The subregion filter: applied whatever the selection is
FilterSubregions(R, cols, selected) ==
  IF "Subregion" \in cols THEN WhereIsIn(R, "Subregion", selected) ELSE R

\* The range sliders that are shown.
Sliders(cols) == SliderTests \cap cols

\* The ten range filters: each keeps the rows inside the range of its slider,
\* which starts as the whole range of the column in joined_data.
FilterRanges(R, J, cols, ranges) ==
  IF Sliders(cols) = {} \/ J = <<>> THEN R
  ELSE LET lo == Smallest(Values(J, "Metric"))
           hi == Largest(Values(J, "Metric"))
       IN SelectSeq(R, LAMBDA r :
            \A c \in Sliders(cols) :
              LET range == IF ranges[c] = <<>> THEN <<lo, hi>> ELSE ranges[c]
              IN range[1] <= r.Metric /\ r.Metric <= range[2])

\* A slider raises: it reads a column joined_data does not have, or
\* joined_data has no rows and int(pop_min) is int(nan).
SliderRaises(J, cols) ==
  \/ \E c \in Sliders(cols) : SliderUse(c) \notin cols
  \/ J = <<>> /\ "Population" \in cols

\* What the script computes from joined_data, the session and the widgets.
selected_year(d) ==
  LET J == d.joined[2] IN
    IF J # <<>> /\ "Year" \in d.joined[1]
      THEN IF d.year \in Values(J, "Year") THEN d.year
           ELSE Largest(Values(J, "Year"))
      ELSE NoYear

\* The happiness slider's bounds for the selected year, <<>> when not shown.
happiness_bounds(d) ==
  LET df_year == WhereEquals(d.joined[2], "Year", selected_year(d)) IN
    IF selected_year(d) # NoYear /\ df_year # <<>> /\ "Happiness" \in d.joined[1]
      THEN <<Smallest(Values(df_year, "Happiness")),
             Largest(Values(df_year, "Happiness"))>>
      ELSE <<>>

\* The slider keeps what the user set while its bounds stay the same.
happiness_range(d) ==
  IF happiness_bounds(d) # <<>> /\ d.hrange # <<>>
       /\ <<d.hrange[1], d.hrange[2]>> = happiness_bounds(d)
    THEN <<d.hrange[3], d.hrange[4]>>
    ELSE happiness_bounds(d)

selected_countries(d) ==
  IF d.has_countries THEN d.countries
  ELSE IF d.joined[2] # <<>> THEN Values(d.joined[2], "Country") ELSE {}

selected_regions(d) ==
  IF d.regions_set THEN d.regions ELSE Values(d.joined[2], "Region")

selected_subregions(d) ==
  IF d.has_subregions THEN d.subregions ELSE Values(d.joined[2], "Subregion")

filtered_data(d) ==
  LET cols == d.joined[1]
      f1 == FilterYear(d.joined[2], cols, selected_year(d))
      f2 == FilterCountries(f1, cols, selected_countries(d))
      f3 == FilterRegions(f2, cols, selected_regions(d))
      f4 == FilterHappiness(f3, cols, happiness_range(d))
      f5 == FilterSubregions(f4, cols, selected_subregions(d))
      f6 == FilterRanges(f5, d.joined[2], cols, d.ranges)
  IN sort_values(f6)

\* The countries of the map: those of filtered_data that are selected.
map_countries(R, cols, selected) ==
  IF R # <<>> /\ "Happiness" \in cols
    THEN Values(WhereIsIn(R, "Country", selected), "Country") ELSE {}

\* Everything but the dashboard.
Pipeline ==
  <<store, faults, failAt, raw, years, page, gdp_page, other, script, pc, idx,
    conn, data, outcome, before, pass, snap>>

\* 2. Data Loading: a run starts; the query's result is bound to joined_data,
\* or the error is shown and joined_data stays unbound
dash_load ==
  /\ dash.pc = "load"
  /\ dash' = [dash EXCEPT
       !.pc = "sidebar",
       !.error = LoadRaises(store),
       !.joined = IF LoadRaises(store) THEN Unbound ELSE fetchdf(store)]
  /\ UNCHANGED Pipeline

\* 3. and 4.: the sidebar, the filters, the table and the map.  Reading
\* joined_data while it is unbound is a NameError, which ends the run.
dash_sidebar ==
  /\ dash.pc = "sidebar"
  /\ IF dash.joined = Unbound
       THEN dash' = [dash EXCEPT !.pc = "crashed", !.exception = "NameError",
                                 !.filtered = <<>>, !.table = {}, !.map = {}]
     ELSE IF SliderRaises(dash.joined[2], dash.joined[1])
       THEN dash' = [dash EXCEPT
              !.pc = "crashed", !.exception = "slider",
              !.has_countries = TRUE, !.countries = selected_countries(dash),
              !.has_subregions = TRUE, !.subregions = selected_subregions(dash),
              !.filtered = <<>>, !.table = {}, !.map = {}]
     ELSE dash' = [dash EXCEPT
            !.pc = "shown",
            !.has_countries = TRUE, !.countries = selected_countries(dash),
            !.has_subregions = TRUE, !.subregions = selected_subregions(dash),
            !.selected_year = selected_year(dash),
            !.happiness_range = happiness_range(dash),
            !.filtered = filtered_data(dash),
            !.table = Values(filtered_data(dash), "Country"),
            !.map = map_countries(filtered_data(dash), dash.joined[1],
                                  selected_countries(dash))]
  /\ UNCHANGED Pipeline

\* The user can act: the last run has shown the page, and the session has
\* seen fewer than MaxClicks interactions.
CanClick == dash.pc = "shown" /\ dash.clicks < MaxClicks

\* The widget's new value is kept and the script runs again.
Rerun(d) == dash' = [d EXCEPT !.pc = "load", !.clicks = dash.clicks + 1]

\* The user picks a year in the selectbox.
select_year ==
  /\ CanClick /\ dash.selected_year # NoYear
  /\ \E y \in Values(dash.joined[2], "Year") : Rerun([dash EXCEPT !.year = y])
  /\ UNCHANGED Pipeline

\* The user moves the happiness slider.
slide_happiness ==
  /\ CanClick /\ happiness_bounds(dash) # <<>>
  /\ LET b == happiness_bounds(dash) IN
       \E lo \in b[1]..b[2] : \E hi \in lo..b[2] :
         Rerun([dash EXCEPT !.hrange = <<b[1], b[2], lo, hi>>])
  /\ UNCHANGED Pipeline

\* The user changes the country multiselect.
pick_countries ==
  /\ CanClick /\ dash.joined[2] # <<>>
  /\ \E S \in SUBSET Values(dash.joined[2], "Country") :
       Rerun([dash EXCEPT !.countries = S])
  /\ UNCHANGED Pipeline

\* The buttons of the Country Selection expander.
select_all_countries ==
  /\ CanClick
  /\ Rerun(IF dash.joined[2] # <<>>
             THEN [dash EXCEPT !.countries = Values(dash.joined[2], "Country")]
             ELSE dash)
  /\ UNCHANGED Pipeline

reset_country_selection ==
  /\ CanClick
  /\ Rerun([dash EXCEPT !.countries = {}])
  /\ UNCHANGED Pipeline

\* The user changes the region multiselect.
pick_regions ==
  /\ CanClick /\ "Region" \in dash.joined[1]
  /\ \E S \in SUBSET Values(dash.joined[2], "Region") :
       Rerun([dash EXCEPT !.regions_set = TRUE, !.regions = S])
  /\ UNCHANGED Pipeline

\* The user changes the subregion multiselect.
pick_subregions ==
  /\ CanClick /\ "Subregion" \in dash.joined[1]
  /\ \E S \in SUBSET Values(dash.joined[2], "Subregion") :
       Rerun([dash EXCEPT !.subregions = S])
  /\ UNCHANGED Pipeline

\* The buttons of the Subregion Selection expander.
select_all_subregions ==
  /\ CanClick /\ "Subregion" \in dash.joined[1]
  /\ Rerun([dash EXCEPT !.subregions = Values(dash.joined[2], "Subregion")])
  /\ UNCHANGED Pipeline

reset_subregion_selection ==
  /\ CanClick /\ "Subregion" \in dash.joined[1]
  /\ Rerun([dash EXCEPT !.subregions = {}])
  /\ UNCHANGED Pipeline

\* The user moves one of the range sliders.
slide_range ==
  /\ CanClick /\ dash.joined[2] # <<>>
  /\ LET lo == Smallest(Values(dash.joined[2], "Metric"))
         hi == Largest(Values(dash.joined[2], "Metric"))
     IN \E c \in Sliders(dash.joined[1]) : \E a \in lo..hi : \E b \in a..hi :
          Rerun([dash EXCEPT !.ranges[c] = <<a, b>>])
  /\ UNCHANGED Pipeline

NextDash ==
  \/ dash_load
  \/ dash_sidebar
  \/ select_year
  \/ slide_happiness
  \/ pick_countries
  \/ select_all_countries
  \/ reset_country_selection
  \/ pick_regions
  \/ pick_subregions
  \/ select_all_subregions
  \/ reset_subregion_selection
  \/ slide_range

\* Healthy sources; the page is opened on one of the stores.
InitDash ==
  /\ faults = {}
  /\ failAt = 1
  /\ raw = DefaultRaw
  /\ years = DefaultYears
  /\ page = PageOf(DefaultRaw["legatum"])
  /\ gdp_page = GdpPageOf(DefaultRaw["gdp"])
  /\ other = NoOther
  /\ dash = [DashOff EXCEPT !.pc = "load"]
  /\ store \in DashStores
  /\ Idle

SpecDash == InitDash /\ [][NextDash]_vars

\* ------------------------------------------------------------------ claims
\* The script sc has run to its end and nothing has been started since.
Ran(sc) == script = sc /\ pc = "done"

\* The countries of table t, as a set.
NameSet(t) ==
  {store[t].rows[i].Country :
     i \in {j \in 1..Len(store[t].rows) : "Country" \in DOMAIN store[t].rows[j]}}

\* The rows this run's normalizer emits for source s.
NewRows(s) ==
  CASE s \in {"legatum", "gdp"} ->
         IF Processed(s) = None THEN <<>> ELSE Processed(s)[2]
    [] s = "api" -> transform_data(raw[s])
    [] OTHER -> SelectRows(s)

\* Table TableOf(s) holds exactly the rows this run's normalizer emits for s.
Loaded(s) == store[TableOf(s)].exists /\ store[TableOf(s)].rows = NewRows(s)

\* Source s has nothing wrong with it.
Healthy(s) == \A f \in faults : f[2] # s

SomeCsvMissing == \E s \in {"population", "happiness", "quality"} : Fault("missing", s)

\* C1: no existence check of csv_insert.main changes the store, and while a
\* required CSV file is missing no step of the run does: the run stays in its
\* existence checks and ends there with exit status 1.
C1_MissingFileExitsBeforeAnyTableChange ==
  [][/\ (script = "csv" /\ pc = "check") => store' = store
     /\ (script = "csv" /\ pc # "done" /\ SomeCsvMissing)
          => /\ store' = store
             /\ pc' \in {"check", "done"}
             /\ (pc' = "done" => outcome' = "exit1")]_vars

\* C1 happens: the quality-of-life file is missing, the run has exited with
\* status 1 and the tables of the earlier run are still there.
C1_Witness ==
  /\ Ran("csv") /\ outcome = "exit1"
  /\ Fault("missing", "quality")
  /\ \A t \in Owned("csv") : store[t].rows # <<>> /\ store[t] = before[t]

\* C2: after a run of api_insert.main whose fetch failed, a countries_metadata
\* that held rows before the run is as it was before the run.
C2_FailedFetchLeavesMetadataUntouched ==
  (Ran("api") /\ Fault("net", "api") /\ before["countries_metadata"].rows # <<>>)
    => Content(store)["countries_metadata"] = Content(before)["countries_metadata"]

\* C3: in a run of webscraping_insert.main, when one page cannot be fetched
\* and the other source is healthy, the other source's table ends the run
\* loaded with its rows.
C3_NetworkFailureIsIsolated ==
  Ran("scrape") =>
    /\ (Fault("net", "legatum") /\ Healthy("gdp")) => Loaded("gdp")
    /\ (Fault("net", "gdp") /\ Healthy("legatum")) => Loaded("legatum")

\* C3 happens: the Legatum page, fetched first, failed, and gdp_table was
\* loaded in the same run.
C3_Witness ==
  /\ Ran("scrape") /\ Fault("net", "legatum")
  /\ Loaded("gdp") /\ store["gdp_table"].rows # <<>>
  /\ store["legatum_prosperity"] = before["legatum_prosperity"]

\* create_countries_data_table has just built countries_data.
JoinSucceeded == script = "join" /\ pc \in {"preview", "done"} /\ data = <<"created">>

AllNames == UNION {NameSet(t) : t \in Tables}

InAllFour(c) == \A s \in JoinSources : c \in NameSet(TableOf(s))

\* C4: after create_countries_data_table succeeds, a country that is missing
\* from one of the four joined tables is not in countries_data.
C4_InnerJoinDropsIncompleteCountries ==
  JoinSucceeded =>
    \A c \in AllNames : ~InAllFour(c) => c \notin NameSet("countries_data")

\* C4 happens: the join succeeded with a non-empty result, and a country of
\* countries_metadata that world_population lacks was left out.
C4_Witness ==
  /\ JoinSucceeded
  /\ store["countries_data"].rows # <<>>
  /\ \E c \in NameSet("countries_metadata") :
       c \notin NameSet("world_population") /\ c \notin NameSet("countries_data")

\* C5: after the ingestion scripts and the join, every country that is in all
\* four joined tables has exactly one row in countries_data.
C5_CountryInAllFourAppearsOnce ==
  JoinSucceeded =>
    \A c \in AllNames : InAllFour(c) => Count(store["countries_data"].rows, c) = 1

\* C6: when a full pipeline pass (api, csv, scrape, join) follows another on
\* unchanged sources, it leaves every table with the rows the first one left.
C6_SecondPassChangesNothing ==
  (pc = "done" /\ pass = Len(PipelineOrder) /\ snap # NoSnap)
    => Content(store) = snap

\* C6 happens: a second pass in a row has ended, over tables that hold rows.
C6_Witness ==
  /\ pc = "done" /\ pass = Len(PipelineOrder) /\ snap # NoSnap
  /\ \A t \in Tables : store[t].rows # <<>>
  /\ Content(store) = snap

\* Another process can open countries.ddb: the running script holds no handle.
Observable == pc # "done" /\ conn = 0

\* C7: at every point of a running ingestion script at which a reader can
\* open the store, each table the script loads, if it held rows before the
\* run, holds all its prior rows or all its new rows.
C7_ReaderSeesOldOrNewContents ==
  Observable =>
    \A s \in Sources :
      (TableOf(s) \in Owned(script) /\ before[TableOf(s)].rows # <<>>) =>
        \/ Content(store)[TableOf(s)] = Content(before)[TableOf(s)]
        \/ Loaded(s)

\* scrape_legatum_index / scrape_worldometers_gdp returns a DataFrame.
Extracted(s) == ~Fault("net", s) /\ Processed(s) # None

\* The bulk insert of source s raised in the run that has just ended.
InsertFailed(s) ==
  CASE s = "api" -> Ran("api") /\ outcome = "exception"
    [] s \in {"legatum", "gdp"} ->
         Ran("scrape") /\ Fault("load", s) /\ Extracted(s)
    [] OTHER ->
         /\ Ran("csv") /\ outcome = "exception"
         /\ CsvOrder[idx] = s /\ Fault("cast", s)

AbsentOrEmpty(t) == ~store[t].exists \/ store[t].rows = <<>>

NoOldRows(t) == \A i \in 1..Len(store[t].rows) : store[t].rows[i].run = 1

\* p is q cut off before its end.
StrictPrefix(p, q) == Len(p) < Len(q) /\ p = SubSeq(q, 1, Len(p))

C9_EveryRunDropsOldRows ==
  \A sc \in Scripts : Ran(sc) => \A t \in Owned(sc) : NoOldRows(t)

\* The run that has ended got as far as dropping the table of source s.
Refreshed(s) ==
  CASE s = "api" -> TRUE
    [] s \in {"legatum", "gdp"} -> Extracted(s)
    [] OTHER -> ~SomeCsvMissing

\* C9 amended: after a run of api_insert, of csv_insert with its three files
\* present, or of process_data, none of the script's tables holds rows of an
\* earlier run, and after a run of webscraping_insert the table of a source
\* whose extraction gave a DataFrame holds none; a CSV run that exits on a
\* missing file and an HTML source whose extraction gave nothing leave their
\* tables exactly as they were.
C9_RunDropsOldRowsUnlessExtractionFailed ==
  /\ Ran("join") => NoOldRows("countries_data")
  /\ \A s \in Sources :
       Ran(IF s = "api" THEN "api"
           ELSE IF s \in {"legatum", "gdp"} THEN "scrape" ELSE "csv")
         => IF Refreshed(s)
              THEN NoOldRows(TableOf(s))
              ELSE store[TableOf(s)] = before[TableOf(s)]

\* C9 happens: the Legatum page could not be fetched and legatum_prosperity
\* still holds the earlier run's rows, while gdp_table was rebuilt.
C9_Witness ==
  /\ Ran("scrape") /\ Fault("net", "legatum")
  /\ store["legatum_prosperity"].rows # <<>>
  /\ ~NoOldRows("legatum_prosperity")
  /\ store["gdp_table"].rows # <<>> /\ NoOldRows("gdp_table")

CsvSources == {"population", "happiness", "quality"}

\* C10: after a run of csv_insert.main in which one file lacks a column, the
\* tables of the other two files, both healthy, are loaded with their rows.
C10_SchemaDriftIsIsolated ==
  \A s \in CsvSources :
    (Ran("csv") /\ Fault("schema", s))
      => \A o \in CsvSources \ {s} : Healthy(o) => Loaded(o)

HtmlSources == {"legatum", "gdp"}

\* The table parsed from the page of source s lacks a required column.
LacksColumn(s) == Fault("nocountry", s) \/ Fault("nometric", s)

\* C11: after a run of webscraping_insert.main in which the parsed table of an
\* HTML source lacks its Country column or a metric column, that source's
\* destination table is as it was before the run, and the table of the other
\* source, if healthy, is loaded with its rows.
C11_MissingColumnLeavesTableUntouched ==
  \A s \in HtmlSources :
    (Ran("scrape") /\ LacksColumn(s)) =>
      /\ store[TableOf(s)] = before[TableOf(s)]
      /\ \A o \in HtmlSources \ {s} : Healthy(o) => Loaded(o)

\* C12: after a run in which a numeric cell of a source is malformed and
\* nothing else is wrong, the script has ended without an exception and the
\* source's table holds every row of the source.
C12_MalformedCellNeverAborts ==
  \A s \in CsvSources \cup {"gdp"} :
    (/\ Ran(IF s = "gdp" THEN "scrape" ELSE "csv")
     /\ faults = {<<"cast", s>>})
      => outcome = "ok" /\ Loaded(s)

\* Row i of the table of source s came from record i of the source.
FromRecord(s, i) ==
  /\ i \in 1..Len(store[TableOf(s)].rows)
  /\ i \in 1..Len(raw[s])
  /\ "Country" \in DOMAIN store[TableOf(s)].rows[i]

CountryAt(s, i) == store[TableOf(s)].rows[i].Country

\* C13: a row loaded from a record whose raw name is a key of its source's
\* mapping table carries another name than the raw one; from 'United States'
\* it carries 'United States of America' in each of the six sources, from
\* 'DR Congo' of the API and from 'Congo Kinshasa' of the happiness file it
\* carries 'Democratic Republic of the Congo'.
C13_MappedNamesBecomeCanonical ==
  \A s \in Sources :
    \A i \in 1..Len(store[TableOf(s)].rows) :
      FromRecord(s, i) =>
        /\ raw[s][i] \in Keys(s) => CountryAt(s, i) # raw[s][i]
        /\ raw[s][i] = "United States"
             => CountryAt(s, i) = "United States of America"
        /\ (s = "api" /\ raw[s][i] = "DR Congo")
             => CountryAt(s, i) = "Democratic Republic of the Congo"
        /\ (s = "happiness" /\ raw[s][i] = "Congo Kinshasa")
             => CountryAt(s, i) = "Democratic Republic of the Congo"

\* C13 happens: each of the six sources delivered 'United States' and each of
\* the six tables holds 'United States of America'.
C13_Witness ==
  \A s \in Sources :
    /\ raw[s] = <<"United States">>
    /\ FromRecord(s, 1)
    /\ CountryAt(s, 1) = "United States of America"

\* C14: a row loaded from a record whose raw name is no key of its source's
\* mapping table carries the raw name unchanged, and no script ends in an
\* exception.
C14_UnmappedNamesPassThrough ==
  /\ outcome # "exception"
  /\ \A s \in Sources :
       \A i \in 1..Len(store[TableOf(s)].rows) :
         (FromRecord(s, i) /\ raw[s][i] \notin Keys(s))
           => CountryAt(s, i) = raw[s][i]

\* C14 happens: 'Czech Republic', a key of the quality-of-life mapping but
\* not of the GDP mapping (whose key is 'Czech Republic (Czechia)'), is in
\* gdp_table as it came and in quality_of_life as 'Czechia'.
C14_Witness ==
  /\ raw["gdp"] = <<"Czech Republic">> /\ raw["quality"] = <<"Czech Republic">>
  /\ FromRecord("gdp", 1) /\ CountryAt("gdp", 1) = "Czech Republic"
  /\ FromRecord("quality", 1) /\ CountryAt("quality", 1) = "Czechia"

\* C15: when two sources deliver the same raw name and the mapping table of
\* one of them has it as a key, the rows loaded from the two records carry
\* the same name.
C15_SameSpellingSameKeyInEverySource ==
  \A s \in Sources : \A o \in Sources :
    \A i \in 1..Len(store[TableOf(s)].rows) :
      (/\ FromRecord(s, i) /\ FromRecord(o, i)
       /\ raw[s][i] = raw[o][i]
       /\ raw[s][i] \in Keys(s))
        => CountryAt(s, i) = CountryAt(o, i)

\* The lines of the happiness file differ in their raw (Country, Year).
RawPairsDistinct ==
  \A i \in 1..Len(raw["happiness"]) : \A j \in 1..Len(raw["happiness"]) :
    i # j => <<raw["happiness"][i], years[i]>> # <<raw["happiness"][j], years[j]>>

\* The rows of world_happiness differ in their (Country, Year).
StoredPairsDistinct ==
  LET R == store["world_happiness"].rows IN
    \A i \in 1..Len(R) : \A j \in 1..Len(R) :
      i # j => <<R[i].Country, R[i].Year>> # <<R[j].Country, R[j].Year>>

\* C16: after a run of csv_insert.main on a happiness file with at most one
\* line per raw (Country, Year), world_happiness holds at most one row per
\* (Country, Year).
C16_OneRowPerCountryAndYear ==
  (Ran("csv") /\ outcome = "ok" /\ RawPairsDistinct) => StoredPairsDistinct

\* streamlit_app.py: the column names its sidebar filters test for or read
\* (Year to Pollution) and those of its summary and correlation lists; the
\* Legatum sub-indicators, whose names come from the page, are left out.
DashboardColumns ==
  {"Year", "Happiness", "Country", "Region", "Subregion", "GDP per capita",
   "Average Prosperity Score", "Population", "Fert_Rate", "FertRate",
   "Med_Age", "MedAge", "DensityKm2", "PurchasingPower", "Climate",
   "CostofLiving", "Pollution",
   "LandAreaKm2", "GDP", "GDP growth", "NetChange", "TrafficCommuteTime"}

\* streamlit_app.py: the columns of
\* SELECT * FROM world_happiness INNER JOIN countries_data USING (Country)
JoinedDataColumns(st) == st["world_happiness"].cols \cup st["countries_data"].cols

\* C17: after the join succeeded on healthy sources, with world_happiness in
\* place, every column name the dashboard tests for or reads is a column of
\* world_happiness joined with countries_data.
C17_DashboardColumnsAreProduced ==
  (JoinSucceeded /\ faults = {} /\ store["world_happiness"].exists)
    => DashboardColumns \subseteq JoinedDataColumns(store)

Min(S) == CHOOSE n \in S : \A m \in S : n <= m

\* C19: after create_countries_data_table succeeds, countries_data has no
\* more rows than the smallest of the four tables it joins.
C19_JoinIsNoLargerThanSmallestTable ==
  JoinSucceeded =>
    Len(store["countries_data"].rows)
      <= Min({Len(store[TableOf(s)].rows) : s \in JoinSources})

\* Table i is the one C20 says extract_legatum_table returns: the first
\* wikitable with 'Rank' in its text, or the first wikitable when none has it.
Expected(i) ==
  /\ i \in 1..Len(page) /\ page[i].wikitable
  /\ IF \E j \in 1..Len(page) : page[j].wikitable /\ page[j].rank
       THEN /\ page[i].rank
            /\ \A j \in 1..(i - 1) : ~(page[j].wikitable /\ page[j].rank)
       ELSE \A j \in 1..(i - 1) : ~page[j].wikitable

\* main of webscraping_insert is through with the Legatum page.
LegatumHandled == script = "scrape" /\ (idx = 2 \/ pc = "done")

\* C20: once webscraping_insert.main is through with the Legatum page,
\* legatum_prosperity holds the rows of the first wikitable whose text
\* contains 'Rank', or of the first wikitable when none contains it; only
\* when the page has no wikitable was no table returned, and then
\* legatum_prosperity is as it was.
C20_FirstRankWikitableIsExtracted ==
  LegatumHandled =>
    IF \E i \in 1..Len(page) : page[i].wikitable
      THEN \E i \in 1..Len(page) :
             /\ Expected(i)
             /\ store["legatum_prosperity"].exists
             /\ store["legatum_prosperity"].rows = SeqMap("legatum", page[i].rows)
             /\ NoOldRows("legatum_prosperity")
      ELSE store["legatum_prosperity"] = before["legatum_prosperity"]

\* C20 happens: the page has a wikitable without 'Rank', then a table with
\* 'Rank' that is no wikitable, then a wikitable with 'Rank' and other rows,
\* and legatum_prosperity holds the rows of the third.
C20_Witness ==
  /\ LegatumHandled
  /\ Len(page) = 3
  /\ page[1].wikitable /\ ~page[1].rank
  /\ ~page[2].wikitable /\ page[2].rank
  /\ page[3].wikitable /\ page[3].rank
  /\ page[1].rows # page[3].rows /\ page[2].rows # page[3].rows
  /\ store["legatum_prosperity"].rows = SeqMap("legatum", page[3].rows)

\* The sources a script loads.
SourcesOf(sc) == {s \in Sources : TableOf(s) \in Owned(sc)}

\* Both processes ran the same script to its end without an error, and the
\* second recreated the tables between the first one's recreate and inserts.
BothRanInterleaved ==
  /\ other.pc = "done" /\ other.outcome = "ok" /\ other.raced
  /\ Ran(other.script) /\ outcome = "ok"

\* C18: when two runs of csv_insert (or of api_insert) against the same file
\* interleave so that both recreate the tables before either inserts, and
\* both end without an error, each table of the script holds every row
\* twice, which is not what either run leaves when it runs alone.
C18_InterleavedRunsInsertTwice ==
  BothRanInterleaved =>
    \A s \in SourcesOf(script) :
      /\ store[TableOf(s)].rows = NewRows(s) \o NewRows(s)
      /\ ~Loaded(s)

\* C18 happens: two runs of csv_insert have ended and world_population holds
\* four rows, the two lines of the file twice.
C18_Witness ==
  /\ BothRanInterleaved /\ script = "csv"
  /\ Len(NewRows("population")) = 2
  /\ Len(store["world_population"].rows) = 4

\* Table i is the one C21 says extract_worldometers_table returns: the table
\* of id example2 (the first, should several carry the id), or the first
\* table of the page when none has the id.
ExpectedGdp(i) ==
  /\ i \in 1..Len(gdp_page)
  /\ IF \E j \in 1..Len(gdp_page) : gdp_page[j].example2
       THEN gdp_page[i].example2 /\ \A j \in 1..(i - 1) : ~gdp_page[j].example2
       ELSE i = 1

\* C21: after a run of webscraping_insert.main on healthy sources, gdp_table
\* holds the rows of the table of id example2 if the page has one, else of
\* the first table of the page; when the page has no table at all gdp_table
\* is as it was before the run.
C21_Example2OrFirstTableIsExtracted ==
  Ran("scrape") =>
    IF gdp_page # <<>>
      THEN \E i \in 1..Len(gdp_page) :
             /\ ExpectedGdp(i)
             /\ store["gdp_table"].exists
             /\ store["gdp_table"].rows = SeqMap("gdp", gdp_page[i].rows)
             /\ NoOldRows("gdp_table")
      ELSE store["gdp_table"] = before["gdp_table"]

\* C21 happens: the table of id example2 is the second of the page, after a
\* table with other rows, and gdp_table holds the rows of the second.
C21_Witness ==
  /\ Ran("scrape")
  /\ Len(gdp_page) >= 2
  /\ ~gdp_page[1].example2 /\ gdp_page[2].example2
  /\ gdp_page[1].rows # gdp_page[2].rows
  /\ store["gdp_table"].rows = SeqMap("gdp", gdp_page[2].rows)

\* The running script is between two function calls: the function it called
\* last has returned and the next statement of main has not started.
BetweenCalls ==
  CASE script = "api"    -> pc = "fetch" \/ (pc = "insert" /\ idx = 1)
    [] script = "csv"    -> pc \in {"ingest", "exit"}
    [] script = "scrape" -> pc = "scrape"
    [] script = "join"   -> pc = "preview"
    [] OTHER             -> FALSE

\* C22: whenever a function of a script has returned and the next step of
\* main is about to start, the script holds no open handle on countries.ddb.
C22_NoHandleLeftOpenBetweenCalls ==
  BetweenCalls => conn = 0

\* C23: the name a loaded row carries is left unchanged by its source's
\* canonicalizer, and when the record's raw name is a key of the source's
\* mapping table, the name the row carries is a key of no source's table.
C23_CanonicalizerIsIdempotent ==
  \A s \in Sources :
    \A i \in 1..Len(store[TableOf(s)].rows) :
      FromRecord(s, i) =>
        /\ Canon(s, CountryAt(s, i)) = CountryAt(s, i)
        /\ raw[s][i] \in Keys(s)
             => \A o \in Sources : CountryAt(s, i) \notin Keys(o)

\* C23 happens: the Legatum page and the happiness file both delivered
\* 'Democratic Republic of Congo', a key of the Legatum adjustments only;
\* legatum_prosperity holds the mapped name and world_happiness the raw one.
C23_Witness ==
  /\ raw["legatum"] = <<"Democratic Republic of Congo">>
  /\ FromRecord("legatum", 1)
  /\ CountryAt("legatum", 1) = "Democratic Republic of the Congo"
  /\ FromRecord("happiness", 1)
  /\ CountryAt("happiness", 1) = "Democratic Republic of Congo"

\* The script sc has run to its end without an exception or an exit status.
RanWell(sc) == Ran(sc) /\ outcome \in {"ok", "return"}

\* C24: after a script has run to its end without an error, each table it
\* owns holds as many rows, all written by this run, as the raw source of the
\* table has records; the row of an API record without a name carries
\* 'Unknown', and the row of any other record carries the name its source's
\* mapping gives.
C24_OneRowPerRecord ==
  \A sc \in Scripts \ {"join"} :
    RanWell(sc) =>
      \A s \in SourcesOf(sc) :
        LET rows == store[TableOf(s)].rows IN
          /\ store[TableOf(s)].exists
          /\ Len(rows) = Len(raw[s])
          /\ \A i \in 1..Len(rows) :
               /\ rows[i].run = 1
               /\ rows[i].Country =
                    IF s = "api" /\ raw[s][i] = NoName THEN "Unknown"
                    ELSE Canon(s, raw[s][i])

\* C24 happens: every source delivered a record without a name and one named
\* 'Chad'; after the CSV script countries_metadata holds the two rows
\* 'Unknown' and 'Chad', and world_happiness holds two rows as well.
C24_Witness ==
  /\ RanWell("csv")
  /\ raw["api"] = <<NoName, "Chad">>
  /\ Len(store["countries_metadata"].rows) = 2
  /\ store["countries_metadata"].rows[1].Country = "Unknown"
  /\ store["countries_metadata"].rows[2].Country = "Chad"
  /\ Len(store["world_happiness"].rows) = 2

\* create_countries_data_table has returned without building countries_data.
JoinFailed == script = "join" /\ pc \in {"preview", "done"} /\ data = <<"error">>

\* C25: a run of process_data.main never ends in an exception; when
\* create_countries_data_table could not build the join, countries_data is
\* absent from then on, whatever it held before the run, and the run ends
\* with the preview's error caught.
C25_FailedJoinLeavesTableDropped ==
  /\ script = "join" => outcome # "exception"
  /\ JoinFailed =>
       /\ ~store["countries_data"].exists
       /\ pc = "done" => outcome = "preview_error"

\* C25 happens: legatum_prosperity is missing, the run has ended with the
\* preview's error caught, and the countries_data that held rows before the
\* run is gone.
C25_Witness ==
  /\ Ran("join") /\ JoinFailed /\ outcome = "preview_error"
  /\ ~store["legatum_prosperity"].exists
  /\ before["countries_data"].rows # <<>>
  /\ ~store["countries_data"].exists

\* The last run of the dashboard script reached its end.
Shown == dash.pc = "shown"

\* C26: whenever a run of the dashboard has reached its end, every row of
\* filtered_data is a row of joined_data, no row is there twice, and when a
\* year is selected every row of filtered_data is of that year.
C26_FilteredDataIsSubsetOfSelectedYear ==
  Shown =>
    LET F == dash.filtered
        J == dash.joined[2]
    IN /\ \A k \in 1..Len(F) : \E j \in 1..Len(J) : J[j] = F[k]
       /\ \A k \in 1..Len(F) : \A l \in 1..Len(F) :
            F[k].label = F[l].label => k = l
       /\ dash.selected_year # NoYear
            => \A k \in 1..Len(F) : F[k].Year = dash.selected_year

\* C26 happens: the user has picked the earlier year, joined_data has rows of
\* both years, and filtered_data holds rows, all of the picked year.
C26_Witness ==
  /\ Shown /\ dash.clicks > 0
  /\ dash.year = 2023 /\ dash.selected_year = 2023
  /\ 2024 \in Values(dash.joined[2], "Year")
  /\ dash.filtered # <<>>
  /\ Len(dash.filtered) < Len(dash.joined[2])

\* C27: whenever a run of the dashboard has reached its end, an empty country
\* selection and an empty subregion selection each leave filtered_data without
\* rows, and the data table and the map show the same countries.
C27_EmptySelectionShowsNothing ==
  Shown =>
    /\ dash.countries = {} => dash.filtered = <<>>
    /\ dash.subregions = {} => dash.filtered = <<>>
    /\ dash.table = dash.map

\* C28: once the loading query of a run has failed, the error is shown, no
\* exception ends the run, and the run goes on to its end.
C28_FailedLoadRunsToItsEnd ==
  (LoadRaises(store) /\ dash.pc # "load") =>
    /\ dash.error
    /\ dash.exception = "none"
    /\ dash.pc \in {"sidebar", "shown"}

====
